---- MODULE Spec2Model ----
(***************************************************************************)
(* A model of owlmind's rules.py: the field matcher Element._matcher, the  *)
(* element matcher Element.match, rule execution Rule.execute with its     *)
(* memory assignment Rule._action_memory, and the rule base RuleBase with  *)
(* its selection RuleBase.select.                                          *)
(*                                                                         *)
(* Conventions.  A Python str is a sequence of one-character strings.  A   *)
(* field value is a tagged record: [str |-> s], [num |-> k], [none |->     *)
(* TRUE] or [method |-> name] (a bound method found by getattr).  A number *)
(* x is the integer k = x * NumScale, so that 1e-6 is Tolerance ticks.  A  *)
(* match quality and a score are exact rationals <<n, d>> in lowest terms  *)
(* (the code computes them in binary floating point).                      *)
(***************************************************************************)
EXTENDS Integers, Sequences, FiniteSets, TLC

VARIABLES
    rb,         \* RuleBase: [order: Seq(namespace), bucket: [namespace -> SUBSET rule id]]
    session,    \* the Element under test in select / match: [field -> value]
    immediate,  \* execute's immediate memory
    long,       \* execute's long-term memory
    arg,        \* the arguments of a pending _matcher call
    call        \* the last call made, with its arguments and its outcome

vars == <<rb, session, immediate, long, arg, call>>

----------------------------------------------------------------------------
(* Bounds *)

MaxLen == 3          \* longest enumerated value / test string
MaxRules == 3        \* most rules added to the rule base

----------------------------------------------------------------------------
(* Python str helpers *)

Range(s) == { s[i] : i \in 1..Len(s) }

\* s[a:b] with 0-based a, b already clamped to 0..Len(s)
Slice(s, a, b) == IF b <= a THEN <<>> ELSE SubSeq(s, a + 1, b)

\* s.startswith(p)
StartsWith(s, p) == Len(p) <= Len(s) /\ SubSeq(s, 1, Len(p)) = p

\* s.endswith(p)
EndsWith(s, p) == Len(p) <= Len(s) /\ SubSeq(s, Len(s) - Len(p) + 1, Len(s)) = p

\* the 0-based offsets at which p occurs in s
Offsets(p, s) == { i \in 0..(Len(s) - Len(p)) : SubSeq(s, i + 1, i + Len(p)) = p }

\* p in s
Occurs(p, s) == Offsets(p, s) # {}

\* Body(v) with v evaluated once
With(v, Body(_)) == CHOOSE y \in { Body(x) : x \in {v} } : TRUE

Min(S) == CHOOSE x \in S : \A y \in S : x <= y
Max(S) == CHOOSE x \in S : \A y \in S : y <= x

\* s.find(p), for p that occurs in s
Find(p, s) == Min(Offsets(p, s))

----------------------------------------------------------------------------
(* Exact rationals *)

RECURSIVE GCD(_, _)
GCD(a, b) == IF b = 0 THEN a ELSE GCD(b, a % b)

Frac(n, d) == LET g == GCD(n, d) IN IF n = 0 THEN <<0, 1>> ELSE <<n \div g, d \div g>>

RAdd(p, q) == Frac(p[1] * q[2] + q[1] * p[2], p[2] * q[2])
RLess(p, q) == p[1] * q[2] < q[1] * p[2]
RInt(k) == <<k, 1>>
RZero == <<0, 1>>

----------------------------------------------------------------------------
(* Values *)

S(s) == [str |-> s]
N(k) == [num |-> k]
None == [none |-> TRUE]
Method(name) == [method |-> name]

IsStr(v) == "str" \in DOMAIN v
IsNum(v) == "num" \in DOMAIN v

\* ticks per unit: the number x is modelled as x * NumScale
NumScale == 10000000
\* 1e-6 in ticks
Tolerance == 10

Digits == <<"0", "1", "2", "3", "4", "5", "6", "7", "8", "9">>
IsDigit(c) == \E i \in 1..10 : Digits[i] = c
DigitVal(c) == (CHOOSE i \in 1..10 : Digits[i] = c) - 1

RECURSIVE Pow10(_)
Pow10(k) == IF k = 0 THEN 1 ELSE 10 * Pow10(k - 1)

RECURSIVE DecVal(_)
DecVal(s) == IF s = <<>> THEN 0 ELSE 10 * DecVal(SubSeq(s, 1, Len(s) - 1)) + DigitVal(s[Len(s)])

AllDigits(s) == \A i \in 1..Len(s) : IsDigit(s[i])

\* float(s) if "." in s else int(s); [ok |-> FALSE] is ValueError.
\* Strings here hold digits and "." only (no sign, blank, exponent or "_").
ParseNum(s) ==
    IF ~ Occurs(<<".">>, s)
    THEN IF Len(s) >= 1 /\ AllDigits(s)
         THEN [ok |-> TRUE, n |-> DecVal(s) * NumScale]
         ELSE [ok |-> FALSE]
    ELSE LET dot == Find(<<".">>, s)
             ip == Slice(s, 0, dot)
             fp == Slice(s, dot + 1, Len(s))
         IN IF AllDigits(ip) /\ AllDigits(fp) /\ Len(ip) + Len(fp) >= 1 /\ Len(fp) <= 7
            THEN [ok |-> TRUE,
                  n |-> DecVal(ip) * NumScale + DecVal(fp) * Pow10(7 - Len(fp))]
            ELSE [ok |-> FALSE]

----------------------------------------------------------------------------
(* Element._matcher *)

NoTarget == None                                  \* match_target = None
DefaultTarget == S(<<"m", "a", "t", "c", "h">>)   \* match_target = 'match'

Out(q, v, t) == [status |-> "ok", quality |-> q, value |-> IF q = RZero THEN None ELSE v, target |-> t]
Raise(e) == [status |-> "raise", exc |-> e]

\* len(pattern) / len(value)
Ratio(n, d) == IF d = 0 THEN Raise("ZeroDivisionError") ELSE [status |-> "ok", q |-> Frac(n, d)]

\* a star form that matched: quality n / Len(v), value unchanged
StarOut(v, n) ==
    LET r == Ratio(n, Len(v))
    IN IF r.status = "raise" THEN r ELSE Out(r.q, S(v), NoTarget)

\* re.search of a pattern that is literal text: the regex branch is modelled
\* for patterns without regex metacharacters.
RegexMatch(v, t) ==
    LET pattern == IF EndsWith(t, <<"/">>) THEN Slice(t, 3, Len(t) - 1) ELSE Slice(t, 3, Len(t))
    IN IF Occurs(pattern, v) THEN Out(<<3, 4>>, S(pattern), NoTarget)
       ELSE Out(RZero, None, NoTarget)

Whitespace == {" ", "\t", "\n", "\r"}

\* re.search(lit1 + group + lit2, v) where group is ([^\s]+) when nonspace,
\* (.*) otherwise: leftmost start, then the longest group.  {} when no match.
GroupMatches(v, lit1, lit2, nonspace) ==
    { m \in (0..Len(v)) \X (0..Len(v)) :
        /\ m[1] + Len(lit1) <= m[2]
        /\ m[2] + Len(lit2) <= Len(v)
        /\ Slice(v, m[1], m[1] + Len(lit1)) = lit1
        /\ Slice(v, m[2], m[2] + Len(lit2)) = lit2
        /\ LET g == Slice(v, m[1] + Len(lit1), m[2])
           IN IF nonspace THEN g # <<>> /\ Range(g) \cap Whitespace = {}
              ELSE "\n" \notin Range(g) }

\* Extract-matching: tests with "$*".  The pattern is modelled for tests with
\* one extraction marker.
ExtractMatch(v, t0) ==
    LET cuts == Offsets(<<"/", "@">>, t0)
    IN IF Cardinality(cuts) > 1 THEN Raise("ValueError")   \* test.split('/@') unpacks to two names
       ELSE
       LET t == IF cuts = {} THEN t0 ELSE Slice(t0, 0, Find(<<"/", "@">>, t0))
           target == IF cuts = {} THEN DefaultTarget
                     ELSE S(Slice(t0, Find(<<"/", "@">>, t0) + 2, Len(t0)))
           nonspace == Occurs(<<"$", "*", "$">>, t)
           marker == IF nonspace THEN <<"$", "*", "$">> ELSE <<"$", "*">>
       IN IF ~ Occurs(marker, t)
          THEN \* no group in the pattern: match.group(1) fails when it matches
               IF Occurs(t, v) THEN Raise("IndexError") ELSE Out(RZero, None, target)
          ELSE
          LET at == Find(marker, t)
              lit1 == Slice(t, 0, at)
              lit2 == Slice(t, at + Len(marker), Len(t))
              ms == GroupMatches(v, lit1, lit2, nonspace)
          IN IF ms = {} THEN Out(RZero, None, target)
             ELSE LET i == Min({ m[1] : m \in ms })
                      j == Max({ m[2] : m \in { x \in ms : x[1] = i } })
                  IN Out(<<3, 4>>, S(Slice(v, i + Len(lit1), j)), target)

\* Star-matching for str*str, as the code computes it
StarBothEnds(v, t) ==
    LET at == Find(<<"*">>, t)
        prefix == Slice(t, 0, at)
        suffix == Slice(t, at + 1, Len(t))
    IN IF StartsWith(v, prefix) /\ EndsWith(v, suffix)
       THEN StarOut(v, Len(prefix) + Len(suffix))
       ELSE Out(RZero, None, NoTarget)

\* the string branch of _matcher; orig is the value as passed in
StrMatch(orig, v, t) ==
    IF v = t THEN Out(<<1, 1>>, orig, NoTarget)
    ELSE IF t = <<"*">> THEN Out(<<1, 4>>, orig, NoTarget)
    ELSE IF StartsWith(t, <<"r", "e", "/">>) THEN RegexMatch(v, t)
    ELSE IF "*" \in Range(t) THEN
        IF Occurs(<<"$", "*">>, t) THEN ExtractMatch(v, t)
        ELSE IF t[1] = "*" THEN
            IF t[Len(t)] = "*"
            THEN LET pattern == Slice(t, 1, Len(t) - 1)
                 IN IF Occurs(pattern, v) THEN StarOut(v, Len(pattern))
                    ELSE Out(RZero, None, NoTarget)
            ELSE LET pattern == Slice(t, 1, Len(t))
                 IN IF EndsWith(v, pattern) THEN StarOut(v, Len(pattern))
                    ELSE Out(RZero, None, NoTarget)
        ELSE IF t[Len(t)] = "*"
            THEN LET pattern == Slice(t, 0, Len(t) - 1)
                 IN IF Occurs(pattern, v) THEN StarOut(v, Len(pattern))
                    ELSE Out(RZero, None, NoTarget)
        ELSE StarBothEnds(v, t)
    ELSE Out(RZero, None, NoTarget)

NumMatch(orig, a, b) ==
    IF a = b THEN Out(<<1, 1>>, orig, NoTarget)
    ELSE IF (IF a > b THEN a - b ELSE b - a) < Tolerance THEN Out(<<9, 10>>, orig, NoTarget)
    ELSE Out(RZero, None, NoTarget)

\* Element._matcher(value, test): [status, quality, value, target] or a raise
Matcher(value0, test0) ==
    LET value == IF IsStr(value0) /\ IsNum(test0)
                 THEN LET p == ParseNum(value0.str) IN IF p.ok THEN N(p.n) ELSE value0
                 ELSE value0
        test  == IF ~ (IsStr(value0) /\ IsNum(test0)) /\ IsStr(test0) /\ IsNum(value0)
                 THEN LET p == ParseNum(test0.str) IN IF p.ok THEN N(p.n) ELSE test0
                 ELSE test0
    IN IF IsStr(value) /\ IsStr(test) THEN StrMatch(value0, value.str, test.str)
       ELSE IF IsNum(value) /\ IsNum(test) THEN NumMatch(value0, value.num, test.num)
       ELSE Out(RZero, None, NoTarget)

----------------------------------------------------------------------------
(* The _matcher call on its own *)

Alphabet == {"a", "b", "*"}

\* every string over Alphabet of length at most MaxLen
Strings == UNION { [1..n -> Alphabet] : n \in 0..MaxLen }

MoreValues ==
    { S(<<"1", "2">>), S(<<"1", ".", "5">>), S(<<"1", ".", "2", ".", "3">>),
      S(<<"a", " ", "b", "a">>), S(<<"x", "=", "a", "b", " ", "c">>),
      N(12 * NumScale), N(15 * (NumScale \div 10)), N(12 * NumScale + 1), None }

MoreTests ==
    { S(<<"1", "2">>), S(<<"1", ".", "5">>), S(<<"x">>),
      S(<<"a", "$", "*">>), S(<<"$", "*", "$">>), S(<<"x", "=", "$", "*", "$", "/", "@", "m">>),
      S(<<"a", "$", "*", "/", "@", "m">>), S(<<"b", "/", "@", "$", "*">>),
      S(<<"$", "*", "/", "@", "m", "/", "@", "n">>),
      S(<<"r", "e", "/", "a", "b", "/">>), S(<<"r", "e", "/", "b">>),
      N(12 * NumScale), N(15 * (NumScale \div 10)), N(12 * NumScale + Tolerance) }

MatcherValues == { S(s) : s \in Strings } \cup MoreValues
MatcherTests == { S(s) : s \in Strings } \cup MoreTests

NoCall == [op |-> "none"]

InitMatcher ==
    /\ arg \in [value : MatcherValues, test : MatcherTests]
    /\ call = NoCall
    /\ rb = [order |-> <<>>, bucket |-> << >>]
    /\ session = << >>
    /\ immediate = None
    /\ long = None

MatcherCall ==
    /\ call' = [op |-> "_matcher", value |-> arg.value, test |-> arg.test,
                out |-> Matcher(arg.value, arg.test)]
    /\ UNCHANGED <<rb, session, immediate, long, arg>>

NextMatcher == MatcherCall

SpecMatcher == InitMatcher /\ [][NextMatcher]_vars

----------------------------------------------------------------------------
(* Element: attribute storage, and Element.match *)

\* names getattr finds on every Element although they are no facts
ClassAttrs == { <<"m", "a", "t", "c", "h">>, <<"_", "m", "a", "t", "c", "h", "e", "r">> }

\* hasattr(self, key), which is also Element.__contains__
HasAttr(e, key) == key \in DOMAIN e \/ key \in ClassAttrs

\* Element.__getitem__: getattr(self, key, None)
GetItem(e, key) ==
    IF key \in DOMAIN e THEN e[key]
    ELSE IF key \in ClassAttrs THEN Method(key)
    ELSE None

\* Element.__setitem__: setattr(self, key, value)
SetItem(e, key, value) == [k \in DOMAIN e \cup {key} |-> IF k = key THEN value ELSE e[k]]

\* truthiness of a str-or-None
TruthyStr(v) == IsStr(v) /\ v.str # <<>>

\* a test field that the element does not have: score = 0; break
MissingField(e, score) == [status |-> "ok", score |-> RZero, elem |-> e]

\* a shared field of quality 0: score = 0; break
FailedField(e, score) == [status |-> "ok", score |-> RZero, elem |-> e]

\* the loop of Element.match from the i-th field of the test on; conds is
\* test.__dict__.items(), a sequence of <<key, test>>
RECURSIVE MatchFrom(_, _, _, _)
MatchFrom(e, conds, i, score) ==
    IF i > Len(conds) THEN [status |-> "ok", score |-> score, elem |-> e]
    ELSE LET key == conds[i][1]
             test == conds[i][2]
         IN IF StartsWith(key, <<"_", "_">>) THEN MatchFrom(e, conds, i + 1, score)
            ELSE IF HasAttr(e, key)
            THEN With(Matcher(GetItem(e, key), test), LAMBDA m :
                    IF m.status = "raise"
                    THEN [status |-> "raise", exc |-> m.exc, score |-> RZero, elem |-> e]
                    ELSE LET e2 == IF TruthyStr(m.target)
                                   THEN SetItem(e, key \o <<"/">> \o m.target.str, m.value)
                                   ELSE e
                             score2 == RAdd(score, RAdd(RInt(100), m.quality))
                         IN IF m.quality = RZero THEN FailedField(e2, score2)
                            ELSE MatchFrom(e2, conds, i + 1, score2))
            ELSE MissingField(e, score)

\* Element.match(self, test): the score, and self as the capture write-backs leave it
Match(e, conds) == MatchFrom(e, conds, 1, RZero)

----------------------------------------------------------------------------
(* Rules *)

DEFAULT_NAMESPACE == "_"
FIRST_MATCH == 0
BEST_MATCHES == 1
ALL_MATCHES == 2

\* weights are counted in hundredths: WeightOne is the weight 1.0
WeightOne == 100

F == <<"f">>
G == <<"g">>
FM == <<"f", "/", "m">>

\* the rules a caller constructs: Rule(conditions, actions, weight, namespace)
RuleArgs ==
    << [namespace |-> "n1", conditions |-> << <<F, S(<<"*">>)>> >>, weight |-> WeightOne],
       [namespace |-> "n1", conditions |-> << <<F, S(<<"*">>)>> >>, weight |-> WeightOne],
       [namespace |-> "n1", conditions |-> << <<F, S(<<"a", "*">>)>> >>, weight |-> 20],
       [namespace |-> "n2", conditions |-> << <<F, S(<<"*", "b">>)>> >>, weight |-> 80],
       [namespace |-> "n2", conditions |-> << <<F, S(<<"a", "$", "*", "/", "@", "m">>)>>, <<G, S(<<"b">>)>> >>,
        weight |-> WeightOne],
       [namespace |-> "", conditions |-> << <<FM, S(<<"b">>)>> >>, weight |-> WeightOne],
       [namespace |-> "n2", conditions |-> << <<F, S(<<"*", "*">>)>> >>, weight |-> WeightOne] >>

RuleIds == 1..Len(RuleArgs)

\* Rule.__init__: a falsy namespace becomes DEFAULT_NAMESPACE
Rule(id) ==
    [namespace |-> IF RuleArgs[id].namespace # "" THEN RuleArgs[id].namespace ELSE DEFAULT_NAMESPACE,
     conditions |-> RuleArgs[id].conditions,
     weight |-> RuleArgs[id].weight]

\* Rule.match(knowledge)
RuleMatch(id, knowledge) == Match(knowledge, Rule(id).conditions)

----------------------------------------------------------------------------
(* RuleBase *)

EmptyBase == [order |-> <<>>, bucket |-> << >>]

RulesIn(base) == UNION { base.bucket[ns] : ns \in DOMAIN base.bucket }

\* RuleBase.__iadd__: the bucket is created on first use; keys() keeps insertion order
IAdd(base, id) ==
    LET ns == Rule(id).namespace
    IN IF ns \in DOMAIN base.bucket
       THEN [base EXCEPT !.bucket[ns] = @ \cup {id}]
       ELSE [order |-> Append(base.order, ns),
             bucket |-> [k \in DOMAIN base.bucket \cup {ns} |->
                            IF k = ns THEN {id} ELSE base.bucket[k]]]

\* the namespace argument of select: None, a str, a tuple or a list of str
Name(n) == [name |-> n]
TupleOf(ns) == [tuple |-> ns]
ListOf(ns) == [list |-> ns]

IsName(a) == "name" \in DOMAIN a
IsTuple(a) == "tuple" \in DOMAIN a
IsList(a) == "list" \in DOMAIN a

\* bool(namespace)
TruthyArg(a) ==
    \/ IsName(a) /\ a.name # ""
    \/ IsTuple(a) /\ a.tuple # <<>>
    \/ IsList(a) /\ a.list # <<>>

\* search_space: a truthy str, tuple or list is an Iterable and is wrapped
\* whole in a one-element list; a falsy argument gives self.keys()
SearchSpace(base, namespace) ==
    IF TruthyArg(namespace) THEN <<namespace>>
    ELSE [i \in 1..Len(base.order) |-> Name(base.order[i])]

\* the state of the scan
ScanInit(test, strategy) ==
    [elem |-> test, best_score |-> RZero, best_rule |-> None, weight_calculation |-> FALSE,
     cache_matches |-> IF strategy \in {BEST_MATCHES, ALL_MATCHES} THEN ListOf(<<>>) ELSE None,
     evals |-> <<>>, status |-> "ok", exc |-> "-"]

\* score_l > best_score, with the candidates of lower score kept
OnHigherKeepsAll(st, id, score, strategy) ==
    [st EXCEPT !.best_score = score, !.best_rule = [rule |-> id],
               !.cache_matches = ListOf(Append(@.list, id)),
               !.weight_calculation = @ \/ Rule(id).weight # WeightOne]

\* score_l > best_score
OnHigher(st, id, score, strategy) ==
    [st EXCEPT !.best_score = score, !.best_rule = [rule |-> id],
               !.cache_matches = ListOf(Append(IF strategy = BEST_MATCHES THEN <<>> ELSE @.list, id)),
               !.weight_calculation = @ \/ Rule(id).weight # WeightOne]

\* score_l == best_score
OnTie(st, id) ==
    [st EXCEPT !.cache_matches = ListOf(Append(@.list, id)),
               !.weight_calculation = @ \/ Rule(id).weight # WeightOne]

\* one rule of the inner loop
Visit(st, id, strategy) ==
    With(RuleMatch(id, st.elem), LAMBDA m :
       IF m.status = "raise"
       THEN [st EXCEPT !.status = "raise", !.exc = m.exc, !.elem = m.elem]
       ELSE LET st1 == [st EXCEPT !.elem = m.elem, !.evals = Append(@, <<id, m.score>>)]
            IN IF m.score = RZero THEN st1
               ELSE IF strategy = FIRST_MATCH
                    THEN [st1 EXCEPT !.best_score = m.score, !.best_rule = [rule |-> id]]
               ELSE IF RLess(st1.best_score, m.score) THEN OnHigher(st1, id, m.score, strategy)
               ELSE IF m.score = st1.best_score THEN OnTie(st1, id)
               ELSE st1)

\* for rule in self[ns], in the order rules; FIRST_MATCH breaks on a match
RECURSIVE ScanRules(_, _, _, _)
ScanRules(st, rules, i, strategy) ==
    IF i > Len(rules) \/ st.status = "raise" THEN st
    ELSE With(Visit(st, rules[i], strategy), LAMBDA st1 :
            IF /\ strategy = FIRST_MATCH
               /\ st1.status = "ok"
               /\ st1.evals[Len(st1.evals)][2] # RZero
            THEN st1
            ELSE ScanRules(st1, rules, i + 1, strategy))

\* a match was found and cut short: leave the other namespaces alone
CutShortNever(st, strategy) == FALSE

CutShort(st, strategy) == st.best_rule # None /\ strategy = FIRST_MATCH

\* for ns in search_space, from the k-th on
RECURSIVE ScanSpace(_, _, _, _, _, _)
ScanSpace(st, base, space, k, order, strategy) ==
    IF k > Len(space) \/ st.status = "raise" THEN st
    ELSE LET ns == space[k]
         IN IF IsList(ns)     \* ns in self hashes ns
            THEN [st EXCEPT !.status = "raise", !.exc = "TypeError"]
            ELSE IF ~ (IsName(ns) /\ ns.name \in DOMAIN base.bucket)
            THEN ScanSpace(st, base, space, k + 1, order, strategy)
            ELSE With(ScanRules(st, order[ns.name], 1, strategy), LAMBDA st1 :
                    IF CutShort(st1, strategy) THEN st1
                    ELSE ScanSpace(st1, base, space, k + 1, order, strategy))

\* what random.choices may draw for best_rule once the scan is over
Choices(st) ==
    IF st.cache_matches # None /\ st.cache_matches.list # <<>>
    THEN LET cm == st.cache_matches.list
         IN IF Len(cm) = 1 THEN { [rule |-> cm[1]] }
            ELSE IF st.weight_calculation
                 THEN { [rule |-> cm[i]] : i \in { j \in 1..Len(cm) : Rule(cm[j]).weight > 0 } }
                 ELSE { ListOf(<<cm[i]>>) : i \in 1..Len(cm) }
    ELSE { st.best_rule }

\* the scan of RuleBase.select(test, namespace, strategy); order[ns] is the
\* order in which the set self[ns] is iterated
Scan(base, test, namespace, strategy, order) ==
    ScanSpace(ScanInit(test, strategy), base, SearchSpace(base, namespace), 1, order, strategy)

----------------------------------------------------------------------------
(* The rule base in use: rules are added, elements are matched and selected on *)

Sessions ==
    { (F :> S(<<"a", "b">>)),
      (F :> S(<<"a", "b">>)) @@ (G :> S(<<"b">>)),
      (F :> S(<<"b">>)) @@ (FM :> S(<<"b">>)),
      (F :> S(<<>>)) @@ (G :> N(12 * NumScale)) }

NamespaceArgs ==
    { None, Name("n1"), Name("n2"), Name("zz"),
      TupleOf(<<"n1", "n2">>), ListOf(<<"n2", "n1">>) }

Strategies == {FIRST_MATCH, BEST_MATCHES, ALL_MATCHES}

\* the tests Element.match is called with directly, besides the rules' conditions
MoreConditions ==
    { << <<F, S(<<"a", "$", "*", "/", "@", "m">>)>>, <<FM, S(<<"b">>)>> >>,
      << <<F, S(<<"*", "b">>)>>, <<G, S(<<"*">>)>> >>,
      << <<G, S(<<"1", "2">>)>>, <<F, S(<<"x">>)>> >>,
      << <<<<"m", "a", "t", "c", "h">>, S(<<"*">>)>> >>,
      << <<<<"_", "_", "x">>, S(<<"q">>)>>, <<F, S(<<"*">>)>> >>,
      << >> }

Conditions == { RuleArgs[id].conditions : id \in RuleIds } \cup MoreConditions

Perms(set) == { p \in [1..Cardinality(set) -> set] : \A i, j \in 1..Cardinality(set) : p[i] = p[j] => i = j }

\* the namespaces of the search space that have a bucket
Searched(base, namespace) ==
    LET space == SearchSpace(base, namespace)
    IN { space[k].name : k \in { x \in 1..Len(space) :
                                    IsName(space[x]) /\ space[x].name \in DOMAIN base.bucket } }

\* the orders in which the sets of the searched buckets may be iterated
IterationOrders(base, namespace) ==
    LET InBucket(ns, p) == LET Test(id) == id \in base.bucket[ns] IN SelectSeq(p, Test)
    IN { [ns \in Searched(base, namespace) |-> InBucket(ns, p)] : p \in Perms(RulesIn(base)) }

RECURSIVE Flatten(_)
Flatten(seqs) == IF seqs = <<>> THEN <<>> ELSE Head(seqs) \o Flatten(Tail(seqs))

\* the rules of the searched buckets in the order the loops of select reach them
IterationOrder(base, namespace, order) ==
    LET space == SearchSpace(base, namespace)
    IN Flatten([k \in 1..Len(space) |->
                  IF IsName(space[k]) /\ space[k].name \in DOMAIN base.bucket
                  THEN order[space[k].name] ELSE <<>>])

Init ==
    /\ rb = EmptyBase
    /\ session \in Sessions
    /\ call = NoCall
    /\ arg = NoCall
    /\ immediate = None
    /\ long = None

\* rb += Rule(...)
AddRule(id) ==
    /\ call = NoCall
    /\ id \notin RulesIn(rb)
    /\ Cardinality(RulesIn(rb)) < MaxRules
    /\ rb' = IAdd(rb, id)
    /\ UNCHANGED <<session, call, arg, immediate, long>>

\* session.match(test)
ElementMatch(conds) ==
    /\ call = NoCall
    /\ \E m \in {Match(session, conds)} :
         /\ call' = [op |-> "match", self |-> session, test |-> conds,
                     status |-> m.status, score |-> m.score]
         /\ session' = m.elem
    /\ UNCHANGED <<rb, arg, immediate, long>>

\* rb.select(session, namespace, strategy)
Select(namespace, strategy) ==
    /\ call = NoCall
    /\ \E order \in IterationOrders(rb, namespace) :
       \E st \in {Scan(rb, session, namespace, strategy, order)} :
         /\ session' = st.elem
         /\ \E chosen \in Choices(st) :
              call' = [op |-> "select", namespace |-> namespace, strategy |-> strategy,
                       test |-> session, iter |-> IterationOrder(rb, namespace, order),
                       status |-> st.status, exc |-> st.exc, evals |-> st.evals,
                       rule |-> chosen, score |-> st.best_score, cache |-> st.cache_matches]
    /\ UNCHANGED <<rb, arg, immediate, long>>

\* the caller is done with the outcome of the last call
Return ==
    /\ call # NoCall
    /\ call' = NoCall
    /\ UNCHANGED <<rb, session, arg, immediate, long>>

Next ==
    \/ \E id \in RuleIds : AddRule(id)
    \/ \E conds \in Conditions : ElementMatch(conds)
    \/ \E namespace \in NamespaceArgs, strategy \in Strategies : Select(namespace, strategy)
    \/ Return

Spec == Init /\ [][Next]_vars

----------------------------------------------------------------------------
(* Rule.execute and Rule._action_memory *)

\* a memory is None, an Element or a dict
ElementOf(f) == [elem |-> f]
DictOf(f) == [dict |-> f]

IsElement(m) == "elem" \in DOMAIN m
IsDict(m) == "dict" \in DOMAIN m

\* bool(memory): an Element defines neither __bool__ nor __len__
TruthyMemory(m) == IsElement(m) \/ (IsDict(m) /\ DOMAIN m.dict # {})

\* key in memory, for a memory that is not None
Contains(m, key) == IF IsElement(m) THEN HasAttr(m.elem, key) ELSE key \in DOMAIN m.dict

\* memory[key], for a key the memory contains
Lookup(m, key) == IF IsElement(m) THEN GetItem(m.elem, key) ELSE m.dict[key]

\* memory[key] = value
Store(m, key, value) ==
    IF IsElement(m) THEN ElementOf(SetItem(m.elem, key, value))
    ELSE DictOf([k \in DOMAIN m.dict \cup {key} |-> IF k = key THEN value ELSE m.dict[k]])

\* Rule._action_memory(key, value, immediate, long) for a str key
ActionMemory(key0, value0, imm, lng) ==
    LET force_long == StartsWith(key0, <<"@">>)
        key == IF force_long THEN Tail(key0) ELSE key0
        reference == TruthyStr(value0) /\ StartsWith(value0.str, <<"$">>)
    IN IF reference /\ imm = None
       THEN [status |-> "raise", exc |-> "TypeError", immediate |-> imm, long |-> lng]
       ELSE LET v_key == Tail(value0.str)
                value == IF ~ reference THEN value0
                         ELSE IF Contains(imm, v_key) THEN Lookup(imm, v_key)
                         ELSE IF TruthyMemory(lng) /\ Contains(lng, v_key) THEN Lookup(lng, v_key)
                         ELSE None
            IN IF TruthyMemory(lng) /\ (Contains(lng, key) \/ force_long)
               THEN [status |-> "ok", exc |-> "-", immediate |-> imm, long |-> Store(lng, key, value)]
               ELSE IF TruthyMemory(imm) /\ ~ force_long
               THEN [status |-> "ok", exc |-> "-", immediate |-> Store(imm, key, value), long |-> lng]
               ELSE [status |-> "ok", exc |-> "-", immediate |-> imm, long |-> lng]

\* an action: a dict of pairs, a tuple, or a list (neither dict nor tuple)
DictAction(pairs) == [pairs |-> pairs]
TupleAction(items) == [items |-> items]
ListAction(items) == [listed |-> items]

IsDictAction(a) == "pairs" \in DOMAIN a
IsTupleAction(a) == "items" \in DOMAIN a

\* Rule._is_action_artifact
IsActionArtifact(a) == IsStr(a) /\ StartsWith(a.str, <<"!">>)

\* a memory assignment made by execute, entered in the run's log
Assign(run, key, value) ==
    With(ActionMemory(key.str, value, run.immediate, run.long), LAMBDA r :
        [status |-> r.status, exc |-> r.exc, immediate |-> r.immediate, long |-> r.long,
         assignments |-> Append(run.assignments,
                                [key |-> key.str, value |-> value,
                                 immediate |-> run.immediate, long |-> run.long,
                                 immediate1 |-> r.immediate, long1 |-> r.long])])

\* one action of the loop of execute
ExecuteAction(run, action) ==
    IF IsDictAction(action)
    THEN [run EXCEPT !.status = "raise", !.exc = "AttributeError"]     \* action.elements()
    ELSE IF IsTupleAction(action)
    THEN LET t == action.items
         IN IF Len(t) = 1
            THEN IF IsActionArtifact(t[1]) THEN run                     \* _action_artifact: pass
                 ELSE [run EXCEPT !.status = "raise", !.exc = "AttributeError"]   \* self.DEFAULT_KEY
            ELSE IF Len(t) = 2
            THEN IF IsActionArtifact(t[1]) THEN run
                 ELSE IF ~ IsStr(t[1]) THEN [run EXCEPT !.status = "raise", !.exc = "AttributeError"]
                 ELSE Assign(run, t[1], t[2])
            ELSE run
    ELSE run

RECURSIVE ExecuteFrom(_, _, _)
ExecuteFrom(run, actions, i) ==
    IF i > Len(actions) \/ run.status = "raise" THEN run
    ELSE ExecuteFrom(ExecuteAction(run, actions[i]), actions, i + 1)

\* Rule.execute(immediate, long) of a rule with these actions
Execute(actions, imm, lng) ==
    ExecuteFrom([status |-> "ok", exc |-> "-", immediate |-> imm, long |-> lng,
                 assignments |-> <<>>], actions, 1)

----------------------------------------------------------------------------
(* Rules executed on memories *)

K == <<"k">>
J == <<"j">>
AtK == <<"@", "k">>
AtJ == <<"@", "j">>
ValV == S(<<"v">>)
ValW == S(<<"w">>)
RefK == S(<<"$", "k">>)
RefZ == S(<<"$", "z">>)

ActionLists ==
    { << TupleAction(<<S(K), ValV>>) >>,
      << TupleAction(<<S(AtK), ValW>>) >>,
      << TupleAction(<<S(J), RefK>>) >>,
      << TupleAction(<<S(AtJ), RefZ>>), TupleAction(<<S(K), ValW>>) >>,
      << DictAction(<< <<K, ValV>>, <<AtJ, ValW>> >>) >>,
      << TupleAction(<<S(K), ValW>>), DictAction(<< <<J, ValV>> >>) >>,
      << TupleAction(<<S(<<"!", "x">>), ValV>>), TupleAction(<<S(<<"!", "x">>)>>) >>,
      << TupleAction(<<ValV>>) >>,
      << TupleAction(<<S(K), ValV, ValW>>), ListAction(<<S(K), ValV>>), TupleAction(<<N(NumScale), ValV>>) >>,
      << >> }

Memories ==
    { ElementOf(<< >>), ElementOf(K :> S(<<"u">>)), DictOf(<< >>), DictOf(K :> S(<<"u">>)) }

InitExec ==
    /\ immediate \in Memories
    /\ long \in Memories \cup {None}
    /\ call = NoCall
    /\ arg = NoCall
    /\ rb = EmptyBase
    /\ session = << >>

\* rule.execute(immediate, long) for a rule with these actions
ExecuteCall(actions) ==
    /\ call = NoCall
    /\ \E run \in {Execute(actions, immediate, long)} :
         /\ immediate' = run.immediate
         /\ long' = run.long
         /\ call' = [op |-> "execute", actions |-> actions, immediate |-> immediate, long |-> long,
                     status |-> run.status, exc |-> run.exc, assignments |-> run.assignments]
    /\ UNCHANGED <<rb, session, arg>>

NextExec ==
    \/ \E actions \in ActionLists : ExecuteCall(actions)
    \/ Return

SpecExec == InitExec /\ [][NextExec]_vars

----------------------------------------------------------------------------
(* Claims about RuleBase.select *)

\* the last call was a select with this strategy that returned
Selected(strategy) == call.op = "select" /\ call.status = "ok" /\ call.strategy = strategy

\* the rules the select scored, and what each scored
Scored == { call.evals[i][1] : i \in 1..Len(call.evals) }
ScoreOf(id) == (CHOOSE i \in 1..Len(call.evals) : call.evals[i][1] = id)
ScoreAt(id) == call.evals[ScoreOf(id)][2]

\* the greatest score among the scored rules, 0 when none matched
TopScore ==
    IF \A id \in Scored : ScoreAt(id) = RZero THEN RZero
    ELSE ScoreAt(CHOOSE id \in Scored : \A other \in Scored : ~ RLess(ScoreAt(id), ScoreAt(other)))

\* the rules of the buckets a None or str namespace argument names
Asked(namespace) ==
    IF namespace = None THEN RulesIn(rb)
    ELSE IF namespace.name \in DOMAIN rb.bucket THEN rb.bucket[namespace.name]
    ELSE {}

\* select iterated over the buckets asked for, each rule once
SearchedAsAsked ==
    /\ Len(call.iter) = Cardinality(Range(call.iter))
    /\ (call.namespace = None \/ IsName(call.namespace)) => Range(call.iter) = Asked(call.namespace)

\* C1: with BEST_MATCHES, whatever the iteration order, every rule of the
\* searched namespaces is scored, the candidate set is exactly the set of
\* scored rules whose score equals the greatest nonzero score, and the
\* returned score is that greatest score (0 and no candidate when no rule
\* matches).  The score of a rule is the one the scan computed for it, which
\* is its score against the tested element as passed in whenever the scan
\* wrote no capture back into the element.
C1_BestMatchesCandidates ==
    Selected(BEST_MATCHES) =>
        /\ SearchedAsAsked
        /\ Scored = Range(call.iter)
        /\ session = call.test => \A id \in Scored : ScoreAt(id) = RuleMatch(id, call.test).score
        /\ IsList(call.cache)
        /\ Len(call.cache.list) = Cardinality(Range(call.cache.list))
        /\ Range(call.cache.list) = { id \in Scored : ScoreAt(id) = TopScore /\ TopScore # RZero }
        /\ call.score = TopScore

\* a BEST_MATCHES select that scored a matching rule of lower score before
\* two rules tied at the greatest score
C1_Witness ==
    /\ Selected(BEST_MATCHES)
    /\ Len(call.cache.list) = 2
    /\ Len(call.evals) >= 3
    /\ call.evals[1][2] # RZero
    /\ RLess(call.evals[1][2], call.score)

\* C2: with ALL_MATCHES, whatever the iteration order, the candidate set holds
\* every scored rule whose score is nonzero.
C2_AllMatchesCandidates ==
    Selected(ALL_MATCHES) =>
        /\ Scored = Range(call.iter)
        /\ IsList(call.cache)
        /\ Range(call.cache.list) = { id \in Scored : ScoreAt(id) # RZero }

\* C3: with FIRST_MATCH the rules are scored in iteration order up to the first
\* one whose score is nonzero; that rule and its score are returned, no rule
\* after it is scored, and the third component is None.  When no rule matches
\* every rule is scored and (None, 0, None) is returned.
C3_FirstMatch ==
    Selected(FIRST_MATCH) =>
        LET n == Len(call.evals)
        IN /\ SearchedAsAsked
           /\ call.cache = None
           /\ n <= Len(call.iter)
           /\ \A i \in 1..n : call.evals[i][1] = call.iter[i]
           /\ \A i \in 1..(n - 1) : call.evals[i][2] = RZero
           /\ IF n > 0 /\ call.evals[n][2] # RZero
              THEN call.rule = [rule |-> call.evals[n][1]] /\ call.score = call.evals[n][2]
              ELSE n = Len(call.iter) /\ call.rule = None /\ call.score = RZero

\* a FIRST_MATCH select over all namespaces that returned the second rule it
\* scored and left rules of a later namespace unscored
C3_Witness ==
    /\ Selected(FIRST_MATCH)
    /\ call.namespace = None
    /\ Len(call.evals) = 2
    /\ call.rule = [rule |-> call.evals[2][1]]
    /\ \E i \in 3..Len(call.iter) : Rule(call.iter[i]).namespace # Rule(call.iter[2]).namespace

\* C4: with BEST_MATCHES or ALL_MATCHES and a non-empty candidate set, the
\* first component of the result is a single rule, one of the candidates.
C4_SelectedIsCandidate ==
    (/\ call.op = "select"
     /\ call.status = "ok"
     /\ call.strategy \in {BEST_MATCHES, ALL_MATCHES}
     /\ call.cache.list # <<>>) =>
        /\ "rule" \in DOMAIN call.rule
        /\ call.rule.rule \in Range(call.cache.list)

\* the namespaces an argument names, in the order given
Named(namespace) ==
    IF namespace = None THEN rb.order
    ELSE IF IsName(namespace) THEN <<namespace.name>>
    ELSE IF IsTuple(namespace) THEN namespace.tuple
    ELSE namespace.list

\* C5: select takes None, a name, or a tuple or list of names; no argument
\* makes it raise for being unhashable, and (when every rule is scored) the
\* rules scored are exactly the rules of the named buckets that exist.
C5_NamespaceArgument ==
    call.op = "select" =>
        /\ ~ (call.status = "raise" /\ call.exc = "TypeError")
        /\ (call.status = "ok" /\ call.strategy # FIRST_MATCH) =>
              Scored = UNION { rb.bucket[ns] : ns \in Range(Named(call.namespace)) \cap DOMAIN rb.bucket }

\* the fields of a test: its keys without the reserved prefix
Fields(conds) == { i \in 1..Len(conds) : ~ StartsWith(conds[i][1], <<"_", "_">>) }

\* the rule base as it would be had rule id never been added to its bucket
Without(base, id) ==
    [base EXCEPT !.bucket = [ns \in DOMAIN base.bucket |-> base.bucket[ns] \ {id}]]

\* the iteration of the last select, bucket by bucket, with rule id left out
OrderWithout(id) ==
    [ns \in DOMAIN rb.bucket |->
        LET Test(r) == r \in rb.bucket[ns] /\ r # id IN SelectSeq(call.iter, Test)]

\* the scores of the last select, those of rule id left out
EvalsWithout(id) == LET Test(ev) == ev[1] # id IN SelectSeq(call.evals, Test)

\* rule id has a condition field that the tested element lacks, when select
\* is called and still when it returns (captures only add fields)
LacksField(id) ==
    \E i \in Fields(Rule(id).conditions) :
        /\ ~ HasAttr(call.test, Rule(id).conditions[i][1])
        /\ ~ HasAttr(session, Rule(id).conditions[i][1])

\* C11: during select, a rule with a condition field absent from the tested
\* element scores 0 and does not affect the other rules: the scores of the
\* other rules, the candidate set and the best score are those of the same
\* select, in the same iteration order, over the rule base without that rule.
C11_FailingRuleIsInert ==
    (call.op = "select" /\ call.status = "ok") =>
        \A id \in { r \in Scored : LacksField(r) } :
            /\ ScoreAt(id) = RZero
            /\ \E alt \in {Scan(Without(rb, id), call.test, call.namespace, call.strategy,
                                OrderWithout(id))} :
                 /\ alt.status = "ok"
                 /\ alt.evals = EvalsWithout(id)
                 /\ alt.cache_matches = call.cache
                 /\ alt.best_score = call.score

----------------------------------------------------------------------------
(* Claims about Element.match and Element._matcher *)

\* the quality of field i of the test against the element e
QualityOf(e, conds, i) ==
    With(Matcher(e[conds[i][1]], conds[i][2]), LAMBDA m :
        IF m.status = "ok" THEN m.quality ELSE RZero)

RECURSIVE SumOver(_, _, _)
SumOver(e, conds, set) ==
    IF set = {} THEN RZero
    ELSE LET i == CHOOSE x \in set : TRUE
         IN RAdd(RAdd(RInt(100), QualityOf(e, conds, i)), SumOver(e, conds, set \ {i}))

\* C6: Element.match returns 0 whenever a field of the test is absent from the
\* tested element or a shared field has quality 0; otherwise it returns the
\* sum of 100 + quality over the fields of the test, more than 100 a field.
C6_MatchScore ==
    (call.op = "match" /\ call.status = "ok") =>
        LET e == call.self
            fs == Fields(call.test)
        IN IF \E i \in fs : \/ call.test[i][1] \notin DOMAIN e
                            \/ QualityOf(e, call.test, i) = RZero
           THEN call.score = RZero
           ELSE /\ call.score = SumOver(e, call.test, fs)
                /\ fs # {} => RLess(RInt(100 * Cardinality(fs)), call.score)

\* a star form: a test with "*" that is neither the wildcard, nor a regex,
\* nor an extraction
StarForm(t) ==
    /\ "*" \in Range(t)
    /\ t # <<"*">>
    /\ ~ StartsWith(t, <<"r", "e", "/">>)
    /\ ~ Occurs(<<"$", "*">>, t)

\* the length of the literal text of a star form
LiteralLen(t) ==
    IF t[1] = "*" /\ t[Len(t)] = "*" THEN Len(t) - 2 ELSE Len(t) - 1

\* C7: for a string value and a string test _matcher returns a quality in
\* [0,1]; a star form that matches has quality literal length / value length,
\* in (0,1], and 1 only when the literal is as long as the value.
C7_QualityInUnitInterval ==
    (call.op = "_matcher" /\ IsStr(call.value) /\ IsStr(call.test)) =>
        /\ call.out.status = "ok"
        /\ ~ RLess(<<1, 1>>, call.out.quality)
        /\ ~ RLess(call.out.quality, RZero)
        /\ (/\ StarForm(call.test.str)
            /\ call.test # call.value
            /\ call.out.quality # RZero) =>
               /\ call.out.quality = Frac(LiteralLen(call.test.str), Len(call.value.str))
               /\ call.out.quality = <<1, 1>> => LiteralLen(call.test.str) = Len(call.value.str)

\* C8: the test '*' has quality exactly 0.25 for every string and every number.
C8_WildcardQuarter ==
    (/\ call.op = "_matcher"
     /\ call.test = S(<<"*">>)
     /\ (IsStr(call.value) \/ IsNum(call.value))) =>
        /\ call.out.status = "ok"
        /\ call.out.quality = <<1, 4>>

----------------------------------------------------------------------------
(* Claims about Rule.execute *)

\* the fields a memory holds
Facts(m) == IF IsElement(m) THEN m.elem ELSE IF IsDict(m) THEN m.dict ELSE << >>

\* memory m1 is m0 with field key written, and nothing else changed
Wrote(m0, m1, key) ==
    /\ IsElement(m0) <=> IsElement(m1)
    /\ key \in DOMAIN Facts(m1)
    /\ DOMAIN Facts(m1) = DOMAIN Facts(m0) \cup {key}
    /\ \A k \in DOMAIN Facts(m0) \ {key} : Facts(m1)[k] = Facts(m0)[k]

\* C9: a memory assignment writes the key (less its '@') to long-term memory,
\* and nothing else, if long-term memory is given and the key is there already
\* or was '@'-marked; otherwise, for a key not '@'-marked, it writes the key to
\* immediate memory and nothing else; an '@'-marked write without long-term
\* memory changes nothing.
C9_MemoryAssignment ==
    call.op = "execute" =>
        \A n \in 1..Len(call.assignments) :
            LET a == call.assignments[n]
                forced == StartsWith(a.key, <<"@">>)
                key == IF forced THEN Tail(a.key) ELSE a.key
            IN IF a.long # None /\ (key \in DOMAIN Facts(a.long) \/ forced)
               THEN a.immediate1 = a.immediate /\ Wrote(a.long, a.long1, key)
               ELSE IF ~ forced
               THEN a.long1 = a.long /\ Wrote(a.immediate, a.immediate1, key)
               ELSE a.long1 = a.long /\ a.immediate1 = a.immediate

\* the pairs of a mapping action as pair actions
RECURSIVE AsPairActions(_)
AsPairActions(actions) ==
    IF actions = <<>> THEN <<>>
    ELSE LET a == Head(actions)
         IN (IF IsDictAction(a)
             THEN [i \in 1..Len(a.pairs) |-> TupleAction(<<S(a.pairs[i][1]), a.pairs[i][2]>>)]
             ELSE <<a>>) \o AsPairActions(Tail(actions))

\* C10: execute on a rule with a mapping action completes without error and
\* leaves the memories as executing its pairs as pair actions leaves them.
C10_MappingAction ==
    (call.op = "execute" /\ \E i \in 1..Len(call.actions) : IsDictAction(call.actions[i])) =>
        /\ call.status = "ok"
        /\ immediate = Execute(AsPairActions(call.actions), call.immediate, call.long).immediate
        /\ long = Execute(AsPairActions(call.actions), call.immediate, call.long).long

====
